---------------------------- MODULE Spec2Model ----------------------------
(* A model of drewcrawford/tgar, src/lib.rs: the TGA header record, its     *)
(* repr(C) memory layout, and BGRA::new, which builds the encoded buffer    *)
(* with raw pointer writes into a Vec<u8> allocated with_capacity.          *)
EXTENDS Integers, Sequences, FiniteSets

VARIABLES width, height, data, big_endian, pc, buf, cap, len, body_ptr, next, writes, result

vars == <<width, height, data, big_endian, pc, buf, cap, len, body_ptr, next, writes, result>>

(* ------------------------------ bounds --------------------------------- *)

\* the longest pixel array whose encoding is followed write by write
MaxPixels == 4

\* widths and heights 0..MaxDim are tried next to the 16-bit corner values
MaxDim == 2

(* ------------------------- memory and types ---------------------------- *)

\* a byte of the allocation nothing has written yet (Vec::with_capacity
\* hands out uninitialised memory), or a padding byte of a typed write
Uninit == -1

\* the values an uninitialised byte may turn out to hold when it is read
GarbageBytes == {0, 170, 255}

U8 == [size |-> 1, align |-> 1]

U16 == [size |-> 2, align |-> 2]

ArrayOf(t, n) == [size |-> t.size * n, align |-> t.align]

AlignUp(off, a) == ((off + a - 1) \div a) * a

RECURSIVE EndOf(_, _)
\* repr(C): each field at the next offset that is a multiple of its alignment
FieldOffset(fields, k) == AlignUp(EndOf(fields, k - 1), fields[k].align)

EndOf(fields, k) == IF k = 0 THEN 0 ELSE FieldOffset(fields, k) + fields[k].size

RECURSIVE MaxAlign(_, _)
MaxAlign(fields, k) ==
    IF k = 0 THEN 1
    ELSE LET m == MaxAlign(fields, k - 1)
         IN  IF fields[k].align > m THEN fields[k].align ELSE m

\* repr(C): the struct's alignment is its largest field alignment and its
\* size is the end of the last field rounded up to that alignment
ReprC(fields) ==
    [size  |-> AlignUp(EndOf(fields, Len(fields)), MaxAlign(fields, Len(fields))),
     align |-> MaxAlign(fields, Len(fields))]

\* the memory image of a repr(C) struct value: vals[k] is the byte sequence
\* of field k; bytes no field covers are padding
StructBytes(fields, vals) ==
    [o \in 0..(ReprC(fields).size - 1) |->
        IF \E k \in 1..Len(fields) :
              o >= FieldOffset(fields, k) /\ o < FieldOffset(fields, k) + fields[k].size
        THEN LET k == CHOOSE j \in 1..Len(fields) :
                        o >= FieldOffset(fields, j)
                     /\ o < FieldOffset(fields, j) + fields[j].size
             IN  vals[k][o - FieldOffset(fields, k) + 1]
        ELSE Uninit]

AsSeq(f, n) == [i \in 1..n |-> f[i - 1]]

swap_bytes(x) == (x % 256) * 256 + (x \div 256)

\* u16::to_le: the identity on a little-endian host, a byte swap on a
\* big-endian one
to_le_broken(x, be) == x

to_le(x, be) == IF be THEN swap_bytes(x) ELSE x

\* a u16 as the host stores it
NativeU16(x, be) == IF be THEN <<x \div 256, x % 256>> ELSE <<x % 256, x \div 256>>

RECURSIVE BitOr(_, _)
BitOr(a, b) ==
    IF a = 0 THEN b
    ELSE IF b = 0 THEN a
    ELSE (IF a % 2 = 1 \/ b % 2 = 1 THEN 1 ELSE 0) + 2 * BitOr(a \div 2, b \div 2)

Shl(a, n) == a * (2 ^ n)

(* ------------------------------ Header --------------------------------- *)

\* b"drewcrawford/tgar"
IMAGE_ID == <<100, 114, 101, 119, 99, 114, 97, 119, 102, 111, 114, 100, 47, 116, 103, 97, 114>>

\* x_origin, y_origin, image_width, image_height, pixel_depth, image_descriptor
ImageSpecification == <<U16, U16, U16, U16, U8, U8>>

\* id_length, color_map_type, image_type, color_map_specification,
\* image_specification, image_id
Header == <<U8, U8, U8, ArrayOf(U8, 5), ReprC(ImageSpecification), ArrayOf(U8, Len(IMAGE_ID))>>

SizeOfHeader == ReprC(Header).size

PixelBGRA == <<U8, U8, U8, U8>>

SizeOfPixel == ReprC(PixelBGRA).size

\* the descriptor with the shift applied to the whole disjunction
new_bgra_precedence(w, h, be) ==
    [id_length               |-> Len(IMAGE_ID) % 256,
     color_map_type          |-> 0,
     image_type              |-> 2,
     color_map_specification |-> <<0, 0, 0, 0, 0>>,
     image_specification     |->
        [x_origin         |-> 0,
         y_origin         |-> 0,
         image_width      |-> to_le(w, be),
         image_height     |-> to_le(h, be),
         pixel_depth      |-> 32,
         image_descriptor |-> Shl(BitOr(8, 1), 5) % 256],
     image_id                |-> IMAGE_ID]

new_bgra(w, h, be) ==
    [id_length               |-> Len(IMAGE_ID) % 256,
     color_map_type          |-> 0,
     image_type              |-> 2,
     color_map_specification |-> <<0, 0, 0, 0, 0>>,
     image_specification     |->
        [x_origin         |-> 0,
         y_origin         |-> 0,
         image_width      |-> to_le(w, be),
         image_height     |-> to_le(h, be),
         pixel_depth      |-> 32,
         image_descriptor |-> BitOr(BitOr(8, Shl(1, 5)), 0)],
     image_id                |-> IMAGE_ID]

ImageSpecificationBytes(s, be) ==
    StructBytes(ImageSpecification,
                <<NativeU16(s.x_origin, be), NativeU16(s.y_origin, be),
                  NativeU16(s.image_width, be), NativeU16(s.image_height, be),
                  <<s.pixel_depth>>, <<s.image_descriptor>>>>)

\* what header_ptr.write(header) stores: the struct's memory image
HeaderBytes(hd, be) ==
    StructBytes(Header,
                <<<<hd.id_length>>, <<hd.color_map_type>>, <<hd.image_type>>,
                  hd.color_map_specification,
                  AsSeq(ImageSpecificationBytes(hd.image_specification, be),
                        ReprC(ImageSpecification).size),
                  hd.image_id>>)

\* the channels stored in r, g, b, a order
PixelBytes_rgba(p) == StructBytes(PixelBGRA, <<<<p.r>>, <<p.g>>, <<p.b>>, <<p.a>>>>)

\* a PixelBGRA in memory: b, g, r, a in declaration order
PixelBytes(p) == StructBytes(PixelBGRA, <<<<p.b>>, <<p.g>>, <<p.r>>, <<p.a>>>>)

(* ----------------------------- BGRA::new -------------------------------- *)

allocation_size(d) == SizeOfHeader + SizeOfPixel * Len(d)

data_offset_full == SizeOfHeader

data_offset == SizeOfHeader - 1

\* width as usize * height as usize == data.len(); the product of two u16
\* values is below 2^32 and fits every usize a std target has
LenMatches_u16(w, h, d) == (w * h) % 65536 = Len(d)

LenMatches(w, h, d) == w * h = Len(d)

\* a raw write of the bytes bs (a function on 0..n-1) at offset at; memory
\* outside the allocation is not part of buf
RawWrite(b, at, bs) ==
    [o \in DOMAIN b |-> IF o - at \in DOMAIN bs THEN bs[o - at] ELSE b[o]]

None == <<>>

InitWith(W, H, D) ==
    /\ width \in W
    /\ height \in H
    /\ data \in D
    /\ big_endian \in BOOLEAN
    /\ pc = "start"
    /\ buf = <<>>
    /\ cap = 0
    /\ len = 0
    /\ body_ptr = 0
    /\ next = 1
    /\ writes = <<>>
    /\ result = None

\* line 102: assert!(width as usize * height as usize == data.len())
AssertLen ==
    /\ pc = "start"
    /\ pc' = IF LenMatches(width, height, data) THEN "alloc" ELSE "panicked"
    /\ UNCHANGED <<width, height, data, big_endian, buf, cap, len, body_ptr, next, writes, result>>

\* line 103: Vec::with_capacity(allocation_size)
WithCapacity ==
    /\ pc = "alloc"
    /\ cap' = allocation_size(data)
    /\ buf' = [o \in 0..(allocation_size(data) - 1) |-> Uninit]
    /\ len' = 0
    /\ pc' = "header"
    /\ UNCHANGED <<width, height, data, big_endian, body_ptr, next, writes, result>>

\* lines 105-107: header_ptr.write(Header::new_bgra(width, height))
WriteHeader ==
    /\ pc = "header"
    /\ buf' = RawWrite(buf, 0, HeaderBytes(new_bgra(width, height, big_endian), big_endian))
    /\ writes' = Append(writes, [kind |-> "header", lo |-> 0, hi |-> SizeOfHeader])
    /\ pc' = "set_len"
    /\ UNCHANGED <<width, height, data, big_endian, cap, len, body_ptr, next, result>>

\* line 109: buf.set_len(allocation_size)
SetLen ==
    /\ pc = "set_len"
    /\ len' = allocation_size(data)
    /\ pc' = "index"
    /\ UNCHANGED <<width, height, data, big_endian, buf, cap, body_ptr, next, writes, result>>

\* line 110: &mut buf[data_offset], a bounds-checked index
IndexBody ==
    /\ pc = "index"
    /\ IF data_offset < len
       THEN /\ body_ptr' = data_offset
            /\ pc' = "loop"
       ELSE /\ body_ptr' = body_ptr
            /\ pc' = "panicked"
    /\ UNCHANGED <<width, height, data, big_endian, buf, cap, len, next, writes, result>>

\* lines 111-114: body_ptr.write(pixel.clone()); body_ptr = body_ptr.add(1)
WritePixel ==
    /\ pc = "loop"
    /\ next <= Len(data)
    /\ buf' = RawWrite(buf, body_ptr, PixelBytes(data[next]))
    /\ writes' = Append(writes, [kind |-> "pixel", lo |-> body_ptr, hi |-> body_ptr + SizeOfPixel])
    /\ body_ptr' = body_ptr + SizeOfPixel
    /\ next' = next + 1
    /\ UNCHANGED <<width, height, data, big_endian, pc, cap, len, result>>

\* lines 117-119: BGRA { data: buf.into_boxed_slice() }; the bytes the caller
\* reads are the first len bytes, an uninitialised one reading as anything
IntoBoxedSlice ==
    /\ pc = "loop"
    /\ next > Len(data)
    /\ \E fill \in [{o \in 0..(len - 1) : o \in DOMAIN buf /\ buf[o] = Uninit} -> GarbageBytes] :
          result' = [o \in 0..(len - 1) |->
                        IF o \in DOMAIN fill THEN fill[o]
                        ELSE IF o \in DOMAIN buf THEN buf[o] ELSE 0]
    /\ pc' = "done"
    /\ UNCHANGED <<width, height, data, big_endian, buf, cap, len, body_ptr, next, writes>>

(* --------------------------- specifications ---------------------------- *)

Palette ==
    { [b |-> 1, g |-> 2, r |-> 3, a |-> 4],
      [b |-> 5, g |-> 6, r |-> 7, a |-> 8],
      [b |-> 3, g |-> 127, r |-> 255, a |-> 0] }

PixelArrays == UNION { [1..n -> Palette] : n \in 0..MaxPixels }

Widths == (0..MaxDim) \cup {256, 258, 65535}

Heights == (0..MaxDim) \cup {256}

Init == InitWith(Widths, Heights, PixelArrays)

Next ==
    \/ AssertLen
    \/ WithCapacity
    \/ WriteHeader
    \/ SetLen
    \/ IndexBody
    \/ WritePixel
    \/ IntoBoxedSlice

Spec == Init /\ [][Next]_vars

\* inputs for the length check alone: 16-bit corner dimensions and arrays
\* longer than 65535 pixels
DefaultPixel == [b |-> 0, g |-> 0, r |-> 0, a |-> 0]

CornerWidths == {0, 1, 255, 256, 257, 65535}

CornerHeights == {0, 1, 255, 256, 257, 32768}

CornerLens == {0, 1, 255, 256, 65535, 65536, 65537, 65792}

CornerArrays == { [i \in 1..n |-> DefaultPixel] : n \in CornerLens }

InitPre == InitWith(CornerWidths, CornerHeights, CornerArrays)

NextPre == AssertLen

SpecPre == InitPre /\ [][NextPre]_vars

(* ------------------------------- claims -------------------------------- *)

\* the header size of the documented layout: pixel data at 18 + id_length
HEADER_SIZE == 18 + Len(IMAGE_ID)

ResultLen == Cardinality(DOMAIN result)

Valid == Len(data) = width * height

\* C1: for every valid input BGRA::new returns, and the returned buffer is
\* exactly HEADER_SIZE + 4*width*height bytes long
C1_LengthIsHeaderPlusPixels ==
    /\ (Valid => pc # "panicked")
    /\ (pc = "done" => ResultLen = HEADER_SIZE + 4 * width * height)

\* C2: pixel i of the input is the 4 bytes b, g, r, a of the returned
\* buffer at HEADER_SIZE + 4*i, in input order
C2_PixelFidelity ==
    pc = "done" =>
        \A i \in 1..Len(data) :
            /\ result[HEADER_SIZE + 4 * (i - 1)]     = data[i].b
            /\ result[HEADER_SIZE + 4 * (i - 1) + 1] = data[i].g
            /\ result[HEADER_SIZE + 4 * (i - 1) + 2] = data[i].r
            /\ result[HEADER_SIZE + 4 * (i - 1) + 3] = data[i].a

C2_Witness ==
    /\ pc = "done"
    /\ width = 2 /\ height = 1
    /\ data = <<[b |-> 1, g |-> 2, r |-> 3, a |-> 4], [b |-> 5, g |-> 6, r |-> 7, a |-> 8]>>
    /\ \A j \in 0..7 : result[HEADER_SIZE + j] = j + 1

\* C3: with pixels.len() # width*height the call panics, returns nothing and
\* has written no byte; a raw write happens only once the check has passed
C3_PanicBeforeAnyWrite ==
    /\ (~Valid => /\ pc \in {"start", "panicked"}
                  /\ writes = <<>>
                  /\ buf = <<>>
                  /\ result = None)
    /\ ((writes # <<>> \/ \E o \in DOMAIN buf : buf[o] # Uninit) =>
            Valid /\ pc \notin {"start", "alloc", "panicked"})

C3_Witness ==
    /\ pc = "panicked"
    /\ width = 1 /\ height = 2
    /\ Len(data) = 1
    /\ writes = <<>>
    /\ buf = <<>>

\* C4: the header bytes other than width and height are the same constants
\* for every input, each at its declared offset
C4_FixedHeaderBytes ==
    pc = "done" =>
        /\ result[0] = 17
        /\ result[1] = 0
        /\ result[2] = 2
        /\ \A o \in 3..7 : result[o] = 0
        /\ \A o \in 8..11 : result[o] = 0
        /\ result[16] = 32
        /\ result[17] = 40
        /\ \A j \in 1..17 : result[17 + j] = IMAGE_ID[j]

C4_Witness ==
    /\ pc = "done"
    /\ Len(data) = 2
    /\ result[17] = 40
    /\ result[18] = 100

\* C5: bytes 12-13 and 14-15 of the returned buffer, read low byte first,
\* are width and height, whatever the host's byte order
C5_DimensionsLittleEndian ==
    pc = "done" =>
        /\ result[12] + 256 * result[13] = width
        /\ result[14] + 256 * result[15] = height

C5_Witness ==
    /\ pc = "done"
    /\ big_endian
    /\ width = 258
    /\ result[12] = 2 /\ result[13] = 1

\* C6: with at least one pixel, the last 4 bytes of the returned buffer are
\* b, g, r, a of the last input pixel
C6_LastFourBytesAreLastPixel ==
    (pc = "done" /\ Len(data) >= 1) =>
        /\ result[ResultLen - 4] = data[Len(data)].b
        /\ result[ResultLen - 3] = data[Len(data)].g
        /\ result[ResultLen - 2] = data[Len(data)].r
        /\ result[ResultLen - 1] = data[Len(data)].a

\* C7: every byte of the returned buffer lies in a header or pixel write and
\* was given a value by it
C7_EveryByteWritten ==
    pc = "done" =>
        \A o \in 0..(len - 1) :
            /\ \E k \in 1..Len(writes) : writes[k].lo <= o /\ o < writes[k].hi
            /\ buf[o] # Uninit

\* C8: the first pixel write starts at the header size the allocation was
\* sized with, so no pixel write touches the header record
C8_PixelsStartAtHeaderSize ==
    \A k \in 1..Len(writes) :
        writes[k].kind = "pixel" =>
            /\ writes[k].lo >= allocation_size(data) - SizeOfPixel * Len(data)
            /\ (k = 2 => writes[k].lo = allocation_size(data) - SizeOfPixel * Len(data))

\* C9: the length check uses the unwrapped product width*height: a length
\* equal only modulo 2^16 is rejected, a matching length above 65535 passes
C9_ProductNotTruncated ==
    pc # "start" =>
        /\ (pc = "alloc" <=> Len(data) = width * height)
        /\ ((Len(data) = (width * height) % 65536 /\ Len(data) # width * height) =>
                pc = "panicked")
        /\ ((Len(data) = width * height /\ Len(data) > 65535) => pc = "alloc")

\* 256 * 256 = 65536 wraps to 0 at 16 bits: zero pixels are still rejected
C9_Witness ==
    /\ pc = "panicked"
    /\ width = 256 /\ height = 256
    /\ Len(data) = (width * height) % 65536
    /\ Len(data) # width * height

\* C10: every raw write stays inside the allocation, pixel write i at
\* data_offset + 4*i, and the index data_offset is below the buffer length
C10_WritesInsideAllocation ==
    /\ \A k \in 1..Len(writes) :
          /\ 0 <= writes[k].lo /\ writes[k].lo < writes[k].hi /\ writes[k].hi <= cap
          /\ (writes[k].kind = "header" => k = 1 /\ writes[k].lo = 0)
          /\ (writes[k].kind = "pixel" =>
                /\ k >= 2
                /\ writes[k].lo = HEADER_SIZE + 4 * (k - 2)
                /\ writes[k].hi = writes[k].lo + 4)
    /\ (pc = "index" => data_offset < len)
    /\ (Valid => pc # "panicked")

C10_Witness ==
    /\ pc = "loop"
    /\ Len(data) = 0
    /\ body_ptr < len
    /\ Len(writes) = 1

=============================================================================
